---- MODULE Spec2Model ----
(***************************************************************************)
(* Route search of the metro network: find_route.py (dijkstra, a_star,     *)
(* heuristic, format_path).  Stations are numbered 1..NumStations; the     *)
(* number order stands for the string order of the station names, which    *)
(* is what heapq uses to order queue entries of equal cost.  Distances     *)
(* are whole numbers of one cost unit.  Line identifiers are 1..NumLines   *)
(* and None is the Python None of the last pair of a path.                 *)
(***************************************************************************)
EXTENDS Integers, Sequences, FiniteSets

\* ------------------------------------------------------------------ bounds
NumStations == 5
NumLines == 2
MaxWeight == 2
MaxCoord == 2
MaxPathLen == 4
MaxCalls == 3

Stations == 1..NumStations
Lines == 1..NumLines
Weights == 0..MaxWeight

\* ------------------------------------------------------------ program values
\* float('inf'): larger than every sum of edge weights a search can build.
Inf == 1000000
\* Python's None, the line of the last pair of a path.
None == 0

VARIABLES
    graph,          \* edges: station -> list of [to, distance, line]
    stations,       \* stations_data: station -> [coords |-> [lat, lon]]
    start, end,     \* the query
    d_pc,           \* dijkstra: "loop" | "done"
    d_queue,        \* dijkstra's heap, entries [dist, node, path]
    d_visited,
    d_min,          \* min_distances
    d_count,        \* nodes_visited_count
    d_ret,          \* what dijkstra returned: [cost, path, nodes]
    a_pc,           \* a_star: "loop" | "done"
    a_queue,        \* a_star's heap, entries [f, g, node, path]
    a_visited,
    a_g,            \* g_scores
    a_count,
    a_ret,
    fmt_pc,         \* format_path: "idle" | "call" | "done"
    fmt_in,         \* path_data
    fmt_out,        \* what format_path returned
    report,         \* main after the two searches: [pc, distance, improvement]
    b_reverse,      \* network builder: ADD_REVERSE
    b_edges,        \* network builder: edges, station -> list of [to, distance, line]
    b_processed,    \* network builder: processed_edges, a set of (from, to, line)
    b_calls,        \* number of builder calls made
    b_check         \* validator's bidirectional check: [pc, missing, mismatch]

inputs == <<graph, stations, start, end>>
d_vars == <<d_pc, d_queue, d_visited, d_min, d_count, d_ret>>
a_vars == <<a_pc, a_queue, a_visited, a_g, a_count, a_ret>>
f_vars == <<fmt_pc, fmt_in, fmt_out>>
b_vars == <<b_reverse, b_edges, b_processed, b_calls, b_check>>
vars == <<graph, stations, start, end, d_pc, d_queue, d_visited, d_min, d_count,
          d_ret, a_pc, a_queue, a_visited, a_g, a_count, a_ret, fmt_pc, fmt_in,
          fmt_out, report, b_reverse, b_edges, b_processed, b_calls, b_check>>

\* ------------------------------------------------------------------ helpers
Abs(x) == IF x < 0 THEN -x ELSE x

\* dict.get(key, default)
Get(dict, key, default) == IF key \in DOMAIN dict THEN dict[key] ELSE default

\* dict[key] = value
Put(dict, key, value) ==
    [k \in (DOMAIN dict) \cup {key} |-> IF k = key THEN value ELSE dict[k]]

\* the sequence s without its i-th element
\* (variant: the least entry is read as queue[0] and stays in the queue)
RemoveAtPeek(s, i) == s

RemoveAt(s, i) == SubSeq(s, 1, i - 1) \o SubSeq(s, i + 1, Len(s))

\* ---------------------------------------------------------------- heuristic
\* haversine of two points.  The model keeps every station on one meridian
\* (lon1 = lon2), where a = sin^2(dlat/2) and c = 2*asin(sqrt(a)) = |dlat|:
\* the result is r * |lat2 - lat1|, and latitudes are counted in the arc that
\* is one cost unit long.
\* (variant: dlat taken as lat2 + lat1)
HaversineSum(lat1, lon1, lat2, lon2) == Abs(lat2 + lat1)

Haversine(lat1, lon1, lat2, lon2) == Abs(lat2 - lat1)

Heuristic(node, target, stations_data) ==
    IF node \notin DOMAIN stations_data \/ target \notin DOMAIN stations_data
    THEN 0
    ELSE LET coords1 == stations_data[node].coords
             coords2 == stations_data[target].coords
         IN  Haversine(coords1.lat, coords1.lon, coords2.lat, coords2.lon)

\* ------------------------------------------------------------- queue order
\* Python's order of two paths (lists of (station, line) tuples).
RECURSIVE PathLess(_, _)
PathLess(p, q) ==
    IF q = <<>> THEN FALSE
    ELSE IF p = <<>> THEN TRUE
    ELSE IF Head(p) = Head(q) THEN PathLess(Tail(p), Tail(q))
    ELSE \/ Head(p)[1] < Head(q)[1]
         \/ Head(p)[1] = Head(q)[1] /\ Head(p)[2] < Head(q)[2]

\* tuple order of dijkstra's entries (dist, node, path)
DLess(x, y) ==
    \/ x.dist < y.dist
    \/ x.dist = y.dist /\ x.node < y.node
    \/ x.dist = y.dist /\ x.node = y.node /\ PathLess(x.path, y.path)

\* tuple order of a_star's entries (f, g, node, path)
ALess(x, y) ==
    \/ x.f < y.f
    \/ x.f = y.f /\ x.g < y.g
    \/ x.f = y.f /\ x.g = y.g /\ x.node < y.node
    \/ x.f = y.f /\ x.g = y.g /\ x.node = y.node /\ PathLess(x.path, y.path)

\* heapq.heappop: the position of the least entry (the first of equal ones)
\* (variant: queue.pop(0), the oldest entry)
DPopFifo(queue) == 1

DPopIndex(queue) ==
    CHOOSE i \in 1..Len(queue) :
        \A j \in 1..Len(queue) :
            /\ ~DLess(queue[j], queue[i])
            /\ (j < i => DLess(queue[i], queue[j]))

APopIndex(queue) ==
    CHOOSE i \in 1..Len(queue) :
        \A j \in 1..Len(queue) :
            /\ ~ALess(queue[j], queue[i])
            /\ (j < i => ALess(queue[i], queue[j]))

\* graph[current_node] under the guard "if current_node in graph"
EdgesOf(g, node) == IF node \in DOMAIN g THEN g[node] ELSE <<>>

\* return <cost>, path + [(current_node, None)], nodes_visited_count
\* (variant: the path returned without the pair of the end station)
FoundNoLastPair(cost, path, current_node, count) ==
    [cost |-> cost, path |-> path, nodes |-> count]

\* (variant: nodes_visited_count is incremented after the test for the end
\* station, so the dequeue that returns is not counted)
FoundUncounted(cost, path, current_node, count) ==
    [cost |-> cost, path |-> Append(path, <<current_node, None>>), nodes |-> count - 1]

Found(cost, path, current_node, count) ==
    [cost |-> cost, path |-> Append(path, <<current_node, None>>), nodes |-> count]

\* return float('inf'), [], nodes_visited_count
\* (variant: -1 returned for "unreachable")
NotFoundMinusOne(count) == [cost |-> -1, path |-> <<>>, nodes |-> count]

NotFound(count) == [cost |-> Inf, path |-> <<>>, nodes |-> count]

\* "if current_node in visited: continue"
\* (variant: the test is left out, every dequeued entry is expanded)
FinalizedNever(node, visited) == FALSE

Finalized(node, visited) == node \in visited

\* ------------------------------------------------------------------ dijkstra
\* the relaxation test of one edge: "if distance < min_distances.get(..)"
\* (variant: "if distance <= min_distances.get(..)")
DImprovesOrEqual(distance, best) == distance <= best

DImproves(distance, best) == distance < best

\* the for loop over graph[current_node]; st = [queue, min]
RECURSIVE DRelax(_, _, _, _, _)
DRelax(edges, current_dist, current_node, path, st) ==
    IF edges = <<>> THEN st
    ELSE LET edge == Head(edges)
             neighbor == edge.to
             weight == edge.distance
             line == edge.line
             distance == current_dist + weight
         IN  IF DImproves(distance, Get(st.min, neighbor, Inf))
             THEN DRelax(Tail(edges), current_dist, current_node, path,
                         [queue |-> Append(st.queue,
                                     [dist |-> distance, node |-> neighbor,
                                      path |-> Append(path, <<current_node, line>>)]),
                          min |-> Put(st.min, neighbor, distance)])
             ELSE DRelax(Tail(edges), current_dist, current_node, path, st)

\* "if current_node in graph: for edge in graph[current_node]: ..."
\* (variant: the loop is left when current_node is no key of the graph)
DExpandBreakOnLeaf(g, e, rest, min) ==
    IF e.node \in DOMAIN g
    THEN DRelax(g[e.node], e.dist, e.node, e.path, [queue |-> rest, min |-> min])
    ELSE [queue |-> <<>>, min |-> min]

DExpand(g, e, rest, min) ==
    DRelax(EdgesOf(g, e.node), e.dist, e.node, e.path, [queue |-> rest, min |-> min])

\* min_distances = {node: inf for node in graph}; min_distances[start] = 0
DInitMin(g, start_node) == Put([node \in DOMAIN g |-> Inf], start_node, 0)

DInit ==
    /\ d_pc = "loop"
    /\ d_queue = <<[dist |-> 0, node |-> start, path |-> <<>>]>>
    /\ d_visited = {}
    /\ d_min = DInitMin(graph, start)
    /\ d_count = 0
    /\ d_ret = [cost |-> Inf, path |-> <<>>, nodes |-> 0]

\* one turn of "while queue", and the return after the loop
DijkstraPop ==
    /\ d_pc = "loop"
    /\ d_queue # <<>>
    /\ LET i == DPopIndex(d_queue)
           e == d_queue[i]
           rest == RemoveAt(d_queue, i)
       IN  /\ d_count' = d_count + 1
           /\ IF e.node = end
              THEN /\ d_pc' = "done"
                   /\ d_ret' = Found(e.dist, e.path, e.node, d_count + 1)
                   /\ d_queue' = rest
                   /\ UNCHANGED <<d_visited, d_min>>
              ELSE IF Finalized(e.node, d_visited)
              THEN /\ d_queue' = rest
                   /\ UNCHANGED <<d_pc, d_ret, d_visited, d_min>>
              ELSE LET st == DExpand(graph, e, rest, d_min)
                   IN  /\ d_visited' = d_visited \cup {e.node}
                       /\ d_queue' = st.queue
                       /\ d_min' = st.min
                       /\ UNCHANGED <<d_pc, d_ret>>
    /\ UNCHANGED <<inputs, a_vars, f_vars, report, b_vars>>

DijkstraExhausted ==
    /\ d_pc = "loop"
    /\ d_queue = <<>>
    /\ d_pc' = "done"
    /\ d_ret' = NotFound(d_count)
    /\ UNCHANGED <<d_queue, d_visited, d_min, d_count>>
    /\ UNCHANGED <<inputs, a_vars, f_vars, report, b_vars>>

\* -------------------------------------------------------------------- a_star
AImproves(tentative_g, best) == tentative_g < best

\* the for loop over graph[current_node]; st = [queue, g]
RECURSIVE ARelax(_, _, _, _, _, _, _)
ARelax(edges, current_g, current_node, path, end_node, stations_data, st) ==
    IF edges = <<>> THEN st
    ELSE LET edge == Head(edges)
             neighbor == edge.to
             weight == edge.distance
             line == edge.line
             tentative_g == current_g + weight
         IN  IF AImproves(tentative_g, Get(st.g, neighbor, Inf))
             THEN LET h_score == Heuristic(neighbor, end_node, stations_data)
                      f_score == tentative_g + h_score
                  IN  ARelax(Tail(edges), current_g, current_node, path, end_node,
                             stations_data,
                             [queue |-> Append(st.queue,
                                         [f |-> f_score, g |-> tentative_g,
                                          node |-> neighbor,
                                          path |-> Append(path, <<current_node, line>>)]),
                              g |-> Put(st.g, neighbor, tentative_g)])
             ELSE ARelax(Tail(edges), current_g, current_node, path, end_node,
                         stations_data, st)

\* "f_score, current_g, current_node, path = heapq.heappop(queue)"; the
\* relaxation adds the edge weight to current_g
\* (variant: the relaxation adds the edge weight to f_score)
AExpandFromF(g, e, rest, g_scores, end_node, stations_data) ==
    ARelax(EdgesOf(g, e.node), e.f, e.node, e.path, end_node, stations_data,
           [queue |-> rest, g |-> g_scores])

\* (variant: a neighbor that has no entry in stations_data is skipped)
AExpandSkipUnknown(g, e, rest, g_scores, end_node, stations_data) ==
    ARelax(SelectSeq(EdgesOf(g, e.node), LAMBDA edge : edge.to \in DOMAIN stations_data),
           e.g, e.node, e.path, end_node, stations_data,
           [queue |-> rest, g |-> g_scores])

AExpand(g, e, rest, g_scores, end_node, stations_data) ==
    ARelax(EdgesOf(g, e.node), e.g, e.node, e.path, end_node, stations_data,
           [queue |-> rest, g |-> g_scores])

AInit ==
    /\ a_pc = "loop"
    /\ a_queue = <<[f |-> 0, g |-> 0, node |-> start, path |-> <<>>]>>
    /\ a_visited = {}
    /\ a_g = DInitMin(graph, start)
    /\ a_count = 0
    /\ a_ret = [cost |-> Inf, path |-> <<>>, nodes |-> 0]

\* one turn of a_star's "while queue"; queue, visited and g_scores are locals
\* of the call
\* (variant: visited is one module-level set that dijkstra and a_star share)
AStarPopSharedVisited ==
    /\ a_pc = "loop"
    /\ a_queue # <<>>
    /\ LET i == APopIndex(a_queue)
           e == a_queue[i]
           rest == RemoveAt(a_queue, i)
       IN  /\ a_count' = a_count + 1
           /\ IF e.node = end
              THEN /\ a_pc' = "done"
                   /\ a_ret' = Found(e.g, e.path, e.node, a_count + 1)
                   /\ a_queue' = rest
                   /\ UNCHANGED <<a_visited, d_visited, a_g>>
              ELSE IF Finalized(e.node, d_visited)
              THEN /\ a_queue' = rest
                   /\ UNCHANGED <<a_pc, a_ret, a_visited, d_visited, a_g>>
              ELSE LET st == AExpand(graph, e, rest, a_g, end, stations)
                   IN  /\ d_visited' = d_visited \cup {e.node}
                       /\ a_visited' = a_visited \cup {e.node}
                       /\ a_queue' = st.queue
                       /\ a_g' = st.g
                       /\ UNCHANGED <<a_pc, a_ret>>
    /\ UNCHANGED <<inputs, d_pc, d_queue, d_min, d_count, d_ret, f_vars, report, b_vars>>

AStarPop ==
    /\ a_pc = "loop"
    /\ a_queue # <<>>
    /\ LET i == APopIndex(a_queue)
           e == a_queue[i]
           rest == RemoveAt(a_queue, i)
       IN  /\ a_count' = a_count + 1
           /\ IF e.node = end
              THEN /\ a_pc' = "done"
                   /\ a_ret' = Found(e.g, e.path, e.node, a_count + 1)
                   /\ a_queue' = rest
                   /\ UNCHANGED <<a_visited, a_g>>
              ELSE IF Finalized(e.node, a_visited)
              THEN /\ a_queue' = rest
                   /\ UNCHANGED <<a_pc, a_ret, a_visited, a_g>>
              ELSE LET st == AExpand(graph, e, rest, a_g, end, stations)
                   IN  /\ a_visited' = a_visited \cup {e.node}
                       /\ a_queue' = st.queue
                       /\ a_g' = st.g
                       /\ UNCHANGED <<a_pc, a_ret>>
    /\ UNCHANGED <<inputs, d_vars, f_vars, report, b_vars>>

AStarExhausted ==
    /\ a_pc = "loop"
    /\ a_queue = <<>>
    /\ a_pc' = "done"
    /\ a_ret' = NotFound(a_count)
    /\ UNCHANGED <<a_queue, a_visited, a_g, a_count>>
    /\ UNCHANGED <<inputs, d_vars, f_vars, report, b_vars>>


\* --------------------------------------------------------------- format_path
\* "if not lines_used or lines_used[-1] != line"
\* (variant: "if line not in lines_used")
NewLineFirstUse(lines_used, line) ==
    \A k \in 1..Len(lines_used) : lines_used[k] # line

NewLine(lines_used, line) ==
    lines_used = <<>> \/ lines_used[Len(lines_used)] # line

\* the for loop over range(len(path_data) - 1); st = [stations_path, lines_used]
RECURSIVE FormatLoop(_, _, _)
FormatLoop(path_data, i, st) ==
    IF i > Len(path_data) - 1 THEN st
    ELSE LET station == path_data[i][1]
             line == path_data[i][2]
         IN  FormatLoop(path_data, i + 1,
                 [stations_path |-> Append(st.stations_path, station),
                  lines_used |-> IF NewLine(st.lines_used, line)
                                 THEN Append(st.lines_used, line)
                                 ELSE st.lines_used])

\* "if not path_data"
\* (variant: "if len(path_data) <= 1")
IsNoPathShort(path_data) == Len(path_data) <= 1

IsNoPath(path_data) == path_data = <<>>

\* the string "No path found." and the dict {"route": .., "lines": ..}
FormatPath(path_data) ==
    IF IsNoPath(path_data)
    THEN [kind |-> "str", text |-> "No path found.", route |-> <<>>, lines |-> <<>>]
    ELSE LET st == FormatLoop(path_data, 1,
                              [stations_path |-> <<>>, lines_used |-> <<>>])
         IN  [kind |-> "dict", text |-> "",
              route |-> Append(st.stations_path, path_data[Len(path_data)][1]),
              lines |-> st.lines_used]

FormatCall ==
    /\ fmt_pc = "call"
    /\ fmt_out' = FormatPath(fmt_in)
    /\ fmt_pc' = "done"
    /\ UNCHANGED <<fmt_in, inputs, d_vars, a_vars, report, b_vars>>

\* ---------------------------------------------------------------------- main
\* "((d_nodes - a_nodes) / d_nodes) * 100", kept as the fraction num / den
Improvement(d_nodes, a_nodes) ==
    [num |-> (d_nodes - a_nodes) * 100, den |-> d_nodes]

ReportIdle == [pc |-> "idle", distance |-> 0, improvement |-> [num |-> 0, den |-> 1]]

\* main after both searches returned (it runs them only when both stations
\* are in the station table): "No route found", or format_path(a_path) and
\* the comparison of the two node counts.  result['lines'] of the string
\* "No path found." raises TypeError, a zero d_nodes ZeroDivisionError.
Report ==
    /\ report.pc = "idle"
    /\ d_pc = "done" /\ a_pc = "done"
    /\ start \in DOMAIN stations /\ end \in DOMAIN stations
    /\ IF d_ret.cost = Inf
       THEN /\ report' = [report EXCEPT !.pc = "no route"]
            /\ UNCHANGED f_vars
       ELSE LET result == FormatPath(a_ret.path)
            IN  /\ fmt_pc' = "done"
                /\ fmt_in' = a_ret.path
                /\ fmt_out' = result
                /\ report' =
                       IF result.kind = "str"
                       THEN [report EXCEPT !.pc = "TypeError"]
                       ELSE IF d_ret.nodes = 0
                       THEN [report EXCEPT !.pc = "ZeroDivisionError",
                                           !.distance = a_ret.cost]
                       ELSE [pc |-> "printed", distance |-> a_ret.cost,
                             improvement |-> Improvement(d_ret.nodes, a_ret.nodes)]
    /\ UNCHANGED <<inputs, d_vars, a_vars, b_vars>>

\* ----------------------------------------------------------- network builders
\* Builder distances are counted in thousandths of a kilometre, stored ones
\* in hundredths.  round(distance, 2): to the nearest hundredth; the distances
\* fed to the builder here are never halfway between two hundredths.
Round2(distance) == (distance + 5) \div 10

\* edges.setdefault(frm, []).append({'to', 'distance', 'line'});
\* processed_edges.add((frm, to, line)); st = [edges, processed]
AppendEdge(st, frm, to, distance, line) ==
    [edges |-> Put(st.edges, frm,
                   Append(Get(st.edges, frm, <<>>),
                          [to |-> to, distance |-> Round2(distance), line |-> line])),
     processed |-> st.processed \cup {<<frm, to, line>>}]

\* add_edge of generate_network_json.py and generate_frontend_data.py
\* (variant: without "if key in processed_edges: return")
AddEdgeNoReturn(st, reverse, frm, to, distance, line) ==
    LET fwd == AppendEdge(st, frm, to, distance, line)
    IN  IF reverse /\ <<to, frm, line>> \notin fwd.processed
        THEN AppendEdge(fwd, to, frm, distance, line)
        ELSE fwd

AddEdge(st, reverse, frm, to, distance, line) ==
    IF <<frm, to, line>> \in st.processed THEN st
    ELSE LET fwd == AppendEdge(st, frm, to, distance, line)
         IN  IF reverse /\ <<to, frm, line>> \notin fwd.processed
             THEN AppendEdge(fwd, to, frm, distance, line)
             ELSE fwd

\* generate_network_json.py, one pair of consecutive stops of a trip:
\* add_edge, then the reverse edge appended if it is not there yet
AddStopPair(st, reverse, frm, to, dist, line) ==
    IF <<frm, to, line>> \notin st.processed
    THEN LET added == AddEdge(st, reverse, frm, to, dist, line)
         IN  IF <<to, frm, line>> \notin added.processed
             THEN AppendEdge(added, to, frm, dist, line)
             ELSE added
    ELSE st

BuildStations == 1..2
BuildDistances == {4, 1004}

\* ADD_REVERSE = bool(config.get('add_reverse_edges', True)); nothing built
BuildIdle ==
    /\ b_reverse = TRUE
    /\ b_edges = <<>>
    /\ b_processed = {}
    /\ b_calls = 0
    /\ b_check = [pc |-> "idle", missing |-> {}, mismatch |-> {}]

\* a call of add_edge (the closing of a line, the frontend builder's stops)
AddEdgeCall ==
    /\ b_check.pc = "idle"
    /\ b_calls < MaxCalls
    /\ \E frm \in BuildStations, to \in BuildStations, distance \in BuildDistances,
          line \in Lines :
           LET st == AddEdge([edges |-> b_edges, processed |-> b_processed],
                             b_reverse, frm, to, distance, line)
           IN  /\ b_edges' = st.edges
               /\ b_processed' = st.processed
    /\ b_calls' = b_calls + 1
    /\ UNCHANGED <<b_reverse, b_check, inputs, d_vars, a_vars, f_vars, report>>

AddStopPairCall ==
    /\ b_check.pc = "idle"
    /\ b_calls < MaxCalls
    /\ \E frm \in BuildStations, to \in BuildStations, dist \in BuildDistances,
          line \in Lines :
           LET st == AddStopPair([edges |-> b_edges, processed |-> b_processed],
                                 b_reverse, frm, to, dist, line)
           IN  /\ b_edges' = st.edges
               /\ b_processed' = st.processed
    /\ b_calls' = b_calls + 1
    /\ UNCHANGED <<b_reverse, b_check, inputs, d_vars, a_vars, f_vars, report>>

\* ------------------------------------------------------------------ validator
\* "abs(z.get('distance', 0) - d) > 0.5", in hundredths of a kilometre
Tolerance == 50

\* the position in edges[v] of the first z with z['to'] == u and the same
\* line, 0 when there is none ("if v in edges: for z in edges[v]: ... break")
FirstReverse(edges, u, e) ==
    LET zs == Get(edges, e.to, <<>>)
        hits == {k \in 1..Len(zs) : zs[k].to = u /\ zs[k].line = e.line}
    IN  IF hits = {} THEN 0 ELSE CHOOSE k \in hits : \A h \in hits : k <= h

\* the bidirectional check: the edges <<u, position>> logged as "Missing
\* reverse edge" and those logged as "Edge distance mismatch"
BidirectionalCheck(edges) ==
    LET all == UNION {{<<u, k>> : k \in 1..Len(edges[u])} : u \in DOMAIN edges}
    IN  [pc |-> "checked",
         missing |-> {x \in all : FirstReverse(edges, x[1], edges[x[1]][x[2]]) = 0},
         mismatch |-> {x \in all :
             LET e == edges[x[1]][x[2]]
                 z == FirstReverse(edges, x[1], e)
             IN  z # 0 /\ Abs(edges[e.to][z].distance - e.distance) > Tolerance}]

Validate ==
    /\ b_check.pc = "idle"
    /\ b_check' = BidirectionalCheck(b_edges)
    /\ UNCHANGED <<b_reverse, b_edges, b_processed, b_calls, inputs, d_vars, a_vars,
                   f_vars, report>>

\* ------------------------------------------------------------------- inputs
\* The networks searched: every choice of a weight, or of no edge, for each
\* (from, to, line) of Skeleton: two routes 1-2-4 and 1-3-4 to station 4, the
\* edge 4-5, and the edge 4-2 back, which closes the cycle 2-4-2.
Skeleton == << <<1, 2, 1>>, <<1, 3, 1>>, <<2, 4, 1>>, <<3, 4, 2>>, <<4, 5, 2>>,
               <<4, 2, 2>> >>
NoEdge == MaxWeight + 1

RECURSIVE EdgeList(_, _, _)
EdgeList(w, u, i) ==
    IF i > Len(Skeleton) THEN <<>>
    ELSE IF Skeleton[i][1] = u /\ w[i] # NoEdge
         THEN <<[to |-> Skeleton[i][2], distance |-> w[i], line |-> Skeleton[i][3]]>>
              \o EdgeList(w, u, i + 1)
         ELSE EdgeList(w, u, i + 1)

\* a station is a key of the graph when it has an outgoing edge
GraphOf(w) ==
    [u \in {Skeleton[i][1] : i \in {j \in 1..Len(Skeleton) : w[j] # NoEdge}} |->
        EdgeList(w, u, 1)]

Graphs == {GraphOf(w) : w \in [1..Len(Skeleton) -> Weights \cup {NoEdge}]}

\* The station tables: the stations of `far` lie MaxCoord north of the others;
\* the stations outside `present` have no entry.
TableOf(far, present) ==
    [s \in present |->
        [coords |-> [lat |-> IF s \in far THEN MaxCoord ELSE 0, lon |-> 0]]]

Tables == { TableOf({2}, Stations),
            TableOf({2, 4}, Stations \ {4}),
            TableOf({2}, Stations \ {NumStations}) }

Init ==
    /\ graph \in Graphs
    /\ stations \in Tables
    /\ start = 1
    /\ end \in Stations
    /\ DInit
    /\ AInit
    /\ fmt_pc = "idle" /\ fmt_in = <<>> /\ fmt_out = FormatPath(<<>>)
    /\ report = ReportIdle
    /\ BuildIdle

\* main runs dijkstra to its return, then a_star, then reports
Next ==
    \/ DijkstraPop
    \/ DijkstraExhausted
    \/ (d_pc = "done" /\ AStarPop)
    \/ (d_pc = "done" /\ AStarExhausted)
    \/ Report

Spec == Init /\ [][Next]_vars

\* a network from any list sk of (from, to, line) and the weights w
RECURSIVE EdgeListIn(_, _, _, _)
EdgeListIn(sk, w, u, i) ==
    IF i > Len(sk) THEN <<>>
    ELSE IF sk[i][1] = u /\ w[i] # NoEdge
         THEN <<[to |-> sk[i][2], distance |-> w[i], line |-> sk[i][3]]>>
              \o EdgeListIn(sk, w, u, i + 1)
         ELSE EdgeListIn(sk, w, u, i + 1)

GraphIn(sk, w) ==
    [u \in {sk[i][1] : i \in {j \in 1..Len(sk) : w[j] # NoEdge}} |->
        EdgeListIn(sk, w, u, 1)]

\* The two searches as two invocations whose steps interleave in any order;
\* the runs of Spec, dijkstra to its return and then a_star, are among them.
\* The networks are the two routes 1-2-4 and 1-3-4 of Skeleton.
InterleavedGraphs ==
    {GraphIn(SubSeq(Skeleton, 1, Len(Skeleton) - 2), w) :
        w \in [1..Len(Skeleton) - 2 -> Weights \cup {NoEdge}]}

InitInterleaved ==
    /\ graph \in InterleavedGraphs
    /\ stations = TableOf({2}, Stations)
    /\ start = 1
    /\ end \in Stations
    /\ DInit
    /\ AInit
    /\ fmt_pc = "idle" /\ fmt_in = <<>> /\ fmt_out = FormatPath(<<>>)
    /\ report = ReportIdle
    /\ BuildIdle

NextInterleaved ==
    \/ DijkstraPop
    \/ DijkstraExhausted
    \/ AStarPop
    \/ AStarExhausted

SpecInterleaved == InitInterleaved /\ [][NextInterleaved]_vars

\* Networks with a self-loop, parallel edges and cycles: every choice of a
\* weight, or of no edge, for each (from, to, line) of LoopSkeleton: two
\* parallel edges 1-2 on different lines, a self-loop at 2, the edge 2-3 and
\* the edge 3-2 back, and the edge 3-4.  Station NumStations has no edge at
\* all; the end station is the last station with an edge or that one.
LoopSkeleton == << <<1, 2, 1>>, <<1, 2, 2>>, <<2, 2, 1>>, <<2, 3, 2>>,
                   <<3, 2, 1>>, <<3, 4, 1>> >>

LoopGraphs ==
    {GraphIn(LoopSkeleton, w) : w \in [1..Len(LoopSkeleton) -> Weights \cup {NoEdge}]}

InitLoops ==
    /\ graph \in LoopGraphs
    /\ stations = TableOf({2}, Stations)
    /\ start = 1
    /\ end \in {LoopSkeleton[Len(LoopSkeleton)][2], NumStations}
    /\ DInit
    /\ AInit
    /\ fmt_pc = "idle" /\ fmt_in = <<>> /\ fmt_out = FormatPath(<<>>)
    /\ report = ReportIdle
    /\ BuildIdle

SpecLoops == InitLoops /\ [][Next]_vars

\* The builders: any MaxCalls calls, then the validator on what they built
InitBuild ==
    /\ graph = GraphOf([i \in 1..Len(Skeleton) |-> NoEdge])
    /\ stations = TableOf({}, {})
    /\ start = 1
    /\ end = 1
    /\ DInit
    /\ AInit
    /\ fmt_pc = "idle" /\ fmt_in = <<>> /\ fmt_out = FormatPath(<<>>)
    /\ report = ReportIdle
    /\ b_reverse \in BOOLEAN
    /\ b_edges = <<>>
    /\ b_processed = {}
    /\ b_calls = 0
    /\ b_check = [pc |-> "idle", missing |-> {}, mismatch |-> {}]

NextBuild ==
    \/ AddEdgeCall
    \/ AddStopPairCall
    \/ Validate

SpecBuild == InitBuild /\ [][NextBuild]_vars

\* format_path on every list of at most MaxPathLen (station, line) pairs
PathStations == 1..2

PathPairs == PathStations \X (Lines \cup {None})

PathsUpTo(n) == UNION {[1..k -> PathPairs] : k \in 0..n}

InitFmt ==
    /\ graph = GraphOf([i \in 1..Len(Skeleton) |-> NoEdge])
    /\ stations = TableOf({}, {})
    /\ start = 1
    /\ end = 1
    /\ DInit
    /\ AInit
    /\ fmt_pc = "call"
    /\ fmt_in \in PathsUpTo(MaxPathLen)
    /\ fmt_out = FormatPath(<<>>)
    /\ report = ReportIdle
    /\ BuildIdle

NextFmt == FormatCall

SpecFmt == InitFmt /\ [][NextFmt]_vars

\* =============================================================== properties
\* The least cost of a path from u to t by enumeration: the minimum over the
\* simple paths (weights are not negative, so a cycle never helps), Inf when
\* there is none.  `seen` holds the stations already on the path.
SetMin(S) == CHOOSE x \in S : \A y \in S : x <= y

RECURSIVE SimplePathMin(_, _, _, _)
SimplePathMin(g, u, t, seen) ==
    IF u = t THEN 0
    ELSE LET es == EdgesOf(g, u)
             costs == { es[i].distance + SimplePathMin(g, es[i].to, t, seen \cup {es[i].to}) :
                          i \in {j \in 1..Len(es) : es[j].to \notin seen} }
             finite == {c \in costs : c < Inf}
         IN  IF finite = {} THEN Inf ELSE SetMin(finite)

MinCost(g, u, t) == SimplePathMin(g, u, t, {u})

\* h(n) of the query: what a_star adds to g when it enqueues n
H(n) == Heuristic(n, end, stations)

\* h never exceeds the true remaining cost to the end station
Admissible == \A n \in Stations : H(n) <= MinCost(graph, n, end)

\* h(u) <= w(u, v) + h(v) along every edge, and h(end) = 0
Consistent ==
    /\ H(end) = 0
    /\ \A u \in DOMAIN graph : \A i \in 1..Len(graph[u]) :
           H(u) <= graph[u][i].distance + H(graph[u][i].to)

\* C1: when a path from start to end exists, the cost dijkstra returns is the
\* least sum of edge weights over all paths from start to end.
C1_DijkstraCostIsMinimum ==
    (d_pc = "done" /\ MinCost(graph, start, end) < Inf)
        => d_ret.cost = MinCost(graph, start, end)

\* dijkstra has returned a route of three edges after expanding both branches
C1_Witness ==
    /\ d_pc = "done"
    /\ Len(d_ret.path) = 4
    /\ d_ret.cost = 3
    /\ {2, 3} \subseteq d_visited

\* C2: with an admissible heuristic a_star returns the cost dijkstra returns.
C2_AStarCostEqualsDijkstra ==
    (a_pc = "done" /\ d_pc = "done" /\ Admissible) => a_ret.cost = d_ret.cost

\* C3: with an admissible and consistent heuristic a_star dequeues no more
\* entries than dijkstra.
C3_AStarVisitsNoMore ==
    (a_pc = "done" /\ d_pc = "done" /\ Admissible /\ Consistent)
        => a_ret.nodes <= d_ret.nodes

\* C4: with stations missing from the table, heuristic is 0 for every pair
\* that involves a missing station, and a_star still returns the minimum cost
\* (the cost dijkstra returns).  Stated for the tables whose heuristic is
\* admissible, the case in which the zero fallback is argued to be harmless.
C4_MissingStationsKeepMinimum ==
    /\ \A n \in Stations : \A t \in Stations :
           (n \notin DOMAIN stations \/ t \notin DOMAIN stations)
               => Heuristic(n, t, stations) = 0
    /\ (a_pc = "done" /\ d_pc = "done" /\ DOMAIN stations # Stations /\ Admissible)
           => a_ret.cost = d_ret.cost

\* heuristic(n, t) against the least path cost, for the stations with coordinates
HeuristicBelowCost ==
    \A n \in DOMAIN stations : \A t \in DOMAIN stations :
        Heuristic(n, t, stations) <= MinCost(graph, n, t)

\* every edge joins two stations with coordinates and is at least as long as
\* the geodesic distance between them
GeodesicWeights ==
    \A u \in DOMAIN graph : \A i \in 1..Len(graph[u]) :
        /\ u \in DOMAIN stations
        /\ graph[u][i].to \in DOMAIN stations
        /\ graph[u][i].distance >= Heuristic(u, graph[u][i].to, stations)

\* C5: for every edge set with non-negative weights, heuristic(node, target)
\* is at most the shortest-path cost from node to target.
C5_HeuristicAdmissibleForAnyWeights ==
    a_pc = "done" => HeuristicBelowCost

\* C5 (amended): the bound holds when every edge is at least as long as the
\* geodesic distance between its two stations, both of which have coordinates.
C5_HeuristicAdmissibleForGeodesicWeights ==
    (a_pc = "done" /\ GeodesicWeights) => HeuristicBelowCost

\* a_star has run on a network of geodesic weights in which two stations a
\* positive distance apart are joined by a path
C5_Witness ==
    /\ a_pc = "done"
    /\ GeodesicWeights
    /\ a_count > 2
    /\ \E n \in DOMAIN stations : \E t \in DOMAIN stations :
           /\ Heuristic(n, t, stations) > 0
           /\ MinCost(graph, n, t) < Inf

\* the result of format_path for the path of a start == end query
SingleStation(s) == [kind |-> "dict", text |-> "", route |-> <<s>>, lines |-> <<>>]

\* C6: a query with start = end ends at the first dequeue with cost 0, the
\* path [(s, None)] and nodes_visited = 1, in dijkstra and in a_star, and
\* format_path of that path gives the route [s] and no lines.
C6_StartEqualsEnd ==
    start = end =>
        /\ d_count > 0 => d_pc = "done"
        /\ d_pc = "done" =>
               /\ d_ret = [cost |-> 0, path |-> << <<start, None>> >>, nodes |-> 1]
               /\ FormatPath(d_ret.path) = SingleStation(start)
        /\ a_count > 0 => a_pc = "done"
        /\ a_pc = "done" =>
               /\ a_ret = [cost |-> 0, path |-> << <<start, None>> >>, nodes |-> 1]
               /\ FormatPath(a_ret.path) = SingleStation(start)

\* both searches have returned for a start that equals end and is no key
C6_Witness ==
    /\ start = end
    /\ start \notin DOMAIN graph
    /\ d_pc = "done"
    /\ a_pc = "done"

\* C7: when no path joins start to end, both searches empty their queue and
\* return the infinity sentinel, an empty path and the number of dequeues.
C7_Unreachable ==
    MinCost(graph, start, end) = Inf =>
        /\ d_pc = "done" =>
               /\ d_queue = <<>>
               /\ d_ret = [cost |-> Inf, path |-> <<>>, nodes |-> d_count]
        /\ a_pc = "done" =>
               /\ a_queue = <<>>
               /\ a_ret = [cost |-> Inf, path |-> <<>>, nodes |-> a_count]

\* both searches gave up after expanding several stations
C7_Witness ==
    /\ MinCost(graph, start, end) = Inf
    /\ d_pc = "done" /\ d_ret.nodes >= 4
    /\ a_pc = "done" /\ a_ret.nodes >= 4

\* the entry the next dequeue takes, and the queue it leaves
DNextEntry == d_queue[DPopIndex(d_queue)]
DRest == RemoveAt(d_queue, DPopIndex(d_queue))
ANextEntry == a_queue[APopIndex(a_queue)]
ARest == RemoveAt(a_queue, APopIndex(a_queue))

\* C8: a dequeued station that is no key of the graph (and is not the end
\* station, nor finalized) is finalized without enqueuing anything and the
\* search goes on; a start that is no key, with start # end, makes both
\* searches return (infinity, [], 1).
C8_NonKeyStationStep ==
    /\ (d_count' = d_count + 1 /\ DNextEntry.node \notin DOMAIN graph
            /\ DNextEntry.node # end /\ DNextEntry.node \notin d_visited)
         => /\ d_queue' = DRest
            /\ d_visited' = d_visited \cup {DNextEntry.node}
            /\ d_min' = d_min
            /\ d_pc' = "loop"
    /\ (a_count' = a_count + 1 /\ ANextEntry.node \notin DOMAIN graph
            /\ ANextEntry.node # end /\ ANextEntry.node \notin a_visited)
         => /\ a_queue' = ARest
            /\ a_visited' = a_visited \cup {ANextEntry.node}
            /\ a_g' = a_g
            /\ a_pc' = "loop"
    /\ (start \notin DOMAIN graph /\ start # end) =>
            /\ d_pc' = "done" => d_ret' = [cost |-> Inf, path |-> <<>>, nodes |-> 1]
            /\ a_pc' = "done" => a_ret' = [cost |-> Inf, path |-> <<>>, nodes |-> 1]

C8_NonKeyStations == [][C8_NonKeyStationStep]_vars

\* a_star has finalized station 5, which is never a key, and still holds entries
C8_Witness ==
    /\ NumStations \in a_visited
    /\ NumStations \notin DOMAIN graph
    /\ end # NumStations
    /\ a_pc = "loop"
    /\ a_queue # <<>>

\* the line identifiers of all pairs but the last
LinesOf(path_data) == [i \in 1..(Len(path_data) - 1) |-> path_data[i][2]]

\* s without every element that equals its predecessor in s
RECURSIVE Collapse(_)
Collapse(s) ==
    IF Len(s) <= 1 THEN s
    ELSE LET front == Collapse(SubSeq(s, 1, Len(s) - 1))
         IN  IF s[Len(s)] = s[Len(s) - 1] THEN front ELSE Append(front, s[Len(s)])

\* C9: for a non-empty path, route is the stations of the path in order and
\* lines is the line identifiers of all pairs but the last with every run of
\* equal identifiers collapsed to one entry, so no two neighbours are equal.
C9_FormatPathCollapsesLines ==
    (fmt_pc = "done" /\ fmt_in # <<>>) =>
        /\ fmt_out.kind = "dict"
        /\ fmt_out.route = [i \in 1..Len(fmt_in) |-> fmt_in[i][1]]
        /\ fmt_out.lines = Collapse(LinesOf(fmt_in))
        /\ \A k \in 1..(Len(fmt_out.lines) - 1) : fmt_out.lines[k] # fmt_out.lines[k + 1]

\* the example of the specification: Red, Red, Blue gives Red, Blue
C9_Witness ==
    /\ fmt_pc = "done"
    /\ fmt_in = << <<1, 1>>, <<2, 1>>, <<1, 2>>, <<2, None>> >>
    /\ fmt_out.route = <<1, 2, 1, 2>>
    /\ fmt_out.lines = <<1, 2>>

\* C10: format_path of the empty path gives the "no path" result, which no
\* non-empty path gives; in particular the path [(s, None)] of a start == end
\* query does not.
C10_NoPathIsDistinct ==
    /\ fmt_pc = "done" =>
           /\ fmt_in = <<>> => fmt_out = [kind |-> "str", text |-> "No path found.",
                                          route |-> <<>>, lines |-> <<>>]
           /\ fmt_in # <<>> => fmt_out # FormatPath(<<>>) /\ fmt_out.kind = "dict"
    /\ \A s \in PathStations :
           FormatPath(<< <<s, None>> >>) = SingleStation(s)

\* format_path has answered for the empty path
C10_Witness ==
    /\ fmt_pc = "done"
    /\ fmt_in = <<>>
    /\ fmt_out.kind = "str"

\* ------------------------------------------------------------ returned paths
\* the weights of the edges u -> v of the graph that carry line L
EdgeWeights(g, u, v, L) ==
    {EdgesOf(g, u)[k].distance :
        k \in {j \in 1..Len(EdgesOf(g, u)) :
                  EdgesOf(g, u)[j].to = v /\ EdgesOf(g, u)[j].line = L}}

\* the sums of weights of the edge sequences that path p, from its i-th pair
\* on, can stand for; empty when some pair has no edge in the graph
RECURSIVE WalkCosts(_, _, _)
WalkCosts(g, p, i) ==
    IF i >= Len(p) THEN {0}
    ELSE {w + c : w \in EdgeWeights(g, p[i][1], p[i + 1][1], p[i][2]),
                  c \in WalkCosts(g, p, i + 1)}

ReturnsWalk(ret) ==
    ret.cost < Inf =>
        /\ Len(ret.path) >= 1
        /\ ret.path[1][1] = start
        /\ ret.path[Len(ret.path)] = <<end, None>>
        /\ ret.cost \in WalkCosts(graph, ret.path, 1)

\* C11: when dijkstra or a_star returns a finite cost, the returned path
\* begins at start, ends with (end, None), every consecutive pair (u, L),
\* (v, _) is an edge u -> v of the graph on line L, and the cost is the sum
\* of the weights of those edges (for a_star: the accumulated g, not f).
C11_ReturnedPathIsWalk ==
    /\ d_pc = "done" => ReturnsWalk(d_ret)
    /\ a_pc = "done" => ReturnsWalk(a_ret)

\* a_star returned a route of two edges or more through a station whose
\* heuristic is positive, so f and g differed on the way
C11_Witness ==
    /\ d_pc = "done" /\ d_ret.cost < Inf /\ Len(d_ret.path) >= 3
    /\ a_pc = "done" /\ a_ret.cost < Inf /\ Len(a_ret.path) >= 3
    /\ \E i \in 1..Len(a_ret.path) - 1 :
           Heuristic(a_ret.path[i][1], end, stations) > 0

\* ------------------------------------------------------- independent searches
\* dijkstra run on its own from a state of its loop to its return
RECURSIVE DijkstraFrom(_, _, _, _)
DijkstraFrom(queue, visited, min, count) ==
    IF queue = <<>> THEN NotFound(count)
    ELSE LET i == DPopIndex(queue)
             e == queue[i]
             rest == RemoveAt(queue, i)
         IN  IF e.node = end THEN Found(e.dist, e.path, e.node, count + 1)
             ELSE IF Finalized(e.node, visited)
             THEN DijkstraFrom(rest, visited, min, count + 1)
             ELSE LET st == DExpand(graph, e, rest, min)
                  IN  DijkstraFrom(st.queue, visited \cup {e.node}, st.min, count + 1)

DijkstraAlone ==
    DijkstraFrom(<<[dist |-> 0, node |-> start, path |-> <<>>]>>, {},
                 DInitMin(graph, start), 0)

\* a_star run on its own from a state of its loop to its return
RECURSIVE AStarFrom(_, _, _, _)
AStarFrom(queue, visited, g_scores, count) ==
    IF queue = <<>> THEN NotFound(count)
    ELSE LET i == APopIndex(queue)
             e == queue[i]
             rest == RemoveAt(queue, i)
         IN  IF e.node = end THEN Found(e.g, e.path, e.node, count + 1)
             ELSE IF Finalized(e.node, visited)
             THEN AStarFrom(rest, visited, g_scores, count + 1)
             ELSE LET st == AExpand(graph, e, rest, g_scores, end, stations)
                  IN  AStarFrom(st.queue, visited \cup {e.node}, st.g, count + 1)

AStarAlone ==
    AStarFrom(<<[f |-> 0, g |-> 0, node |-> start, path |-> <<>>]>>, {},
              DInitMin(graph, start), 0)

C12_IndependentStep ==
    /\ graph' = graph /\ stations' = stations /\ start' = start /\ end' = end
    /\ d_vars' # d_vars => a_vars' = a_vars
    /\ a_vars' # a_vars => d_vars' = d_vars
    /\ d_pc' = "done" => d_ret' = DijkstraAlone
    /\ a_pc' = "done" => a_ret' = AStarAlone

\* C12: every step of dijkstra and of a_star leaves the graph (its key set
\* and every edge list) and the station table as they are, also when start,
\* end or an edge destination is no key; a step of one search changes nothing
\* of the other, so two searches whose steps interleave in any order return
\* what each returns when run alone.
C12_SearchesAreIndependent == [][C12_IndependentStep]_vars

\* both searches are in the middle of their loops, on a network where the end
\* station and an edge destination are no keys, and both return afterwards
C12_Witness ==
    /\ d_pc = "loop" /\ d_count >= 2 /\ d_queue # <<>>
    /\ a_pc = "loop" /\ a_count >= 2 /\ a_queue # <<>>
    /\ end \notin DOMAIN graph
    /\ \E u \in DOMAIN graph : \E k \in 1..Len(graph[u]) :
           graph[u][k].to \notin DOMAIN graph

\* ------------------------------------------------------- main's comparison
\* C13: the divisor of the percentage improvement is never zero in a run of
\* main that reaches the computation: every dijkstra call returns
\* nodes_visited >= 1, so the division raises no ZeroDivisionError.
C13_ImprovementDivisorNonZero ==
    /\ d_pc = "done" => d_ret.nodes >= 1
    /\ report.pc # "ZeroDivisionError"
    /\ report.pc = "printed" =>
           /\ report.improvement.den = d_ret.nodes
           /\ report.improvement.den # 0

\* main printed the comparison of a query whose dijkstra call dequeued once
C13_Witness ==
    /\ report.pc = "printed"
    /\ d_ret.nodes = 1
    /\ report.improvement = Improvement(1, a_ret.nodes)

\* ------------------------------------------------------------ best-cost table
\* the entries a step appended to a queue that held n entries before it
AddedTo(n, queue_after) == SubSeq(queue_after, n, Len(queue_after))

\* the best cost known for station `to` when the j-th edge of the expanded
\* station is looked at: the table before the step and the edges before j
BestBefore(edges, j, cost, table) ==
    SetMin({Get(table, edges[j].to, Inf)}
           \cup {cost + edges[i].distance :
                    i \in {h \in 1..j - 1 : edges[h].to = edges[j].to}})

\* costs: the accumulated costs of the entries added, nodes: their stations;
\* cost, node: of the dequeued entry; expands: the step relaxed its edges
EnqueueStepOk(costs, nodes, cost, node, expands, table, table_after) ==
    /\ \A k \in 1..Len(costs) :
           /\ costs[k] < Get(table, nodes[k], Inf)
           /\ \A j \in 1..k - 1 : nodes[j] = nodes[k] => costs[k] < costs[j]
    /\ \A n \in Stations :
           Get(table_after, n, Inf) =
               SetMin({Get(table, n, Inf)}
                      \cup {costs[k] : k \in {h \in 1..Len(costs) : nodes[h] = n}})
    /\ IF expands
       THEN LET edges == EdgesOf(graph, node)
                taken == {j \in 1..Len(edges) :
                            cost + edges[j].distance < BestBefore(edges, j, cost, table)}
            IN  /\ Len(costs) = Cardinality(taken)
                /\ \A j \in taken : \E k \in 1..Len(costs) :
                       nodes[k] = edges[j].to /\ costs[k] = cost + edges[j].distance
       ELSE costs = <<>>

C14_TableBelowQueue ==
    /\ Get(d_min, start, Inf) = 0
    /\ Get(a_g, start, Inf) = 0
    /\ \A k \in 1..Len(d_queue) : Get(d_min, d_queue[k].node, Inf) <= d_queue[k].dist
    /\ \A k \in 1..Len(a_queue) : Get(a_g, a_queue[k].node, Inf) <= a_queue[k].g

C14_EnqueueStep ==
    /\ d_count' = d_count + 1 =>
           LET added == AddedTo(Len(d_queue), d_queue')
           IN  EnqueueStepOk([k \in 1..Len(added) |-> added[k].dist],
                             [k \in 1..Len(added) |-> added[k].node],
                             DNextEntry.dist, DNextEntry.node,
                             DNextEntry.node # end /\ DNextEntry.node \notin d_visited,
                             d_min, d_min')
    /\ a_count' = a_count + 1 =>
           LET added == AddedTo(Len(a_queue), a_queue')
           IN  EnqueueStepOk([k \in 1..Len(added) |-> added[k].g],
                             [k \in 1..Len(added) |-> added[k].node],
                             ANextEntry.g, ANextEntry.node,
                             ANextEntry.node # end /\ ANextEntry.node \notin a_visited,
                             a_g, a_g')

\* C14: in both searches the best-cost table of a station is at most the
\* accumulated cost of every queue entry for it (0 for start) and is the
\* smallest cost with which the station was ever enqueued: a step enqueues a
\* neighbor exactly when its tentative cost is strictly less than the table
\* value, and sets the table to that cost, so the entries enqueued for one
\* station have strictly decreasing, pairwise distinct costs.
C14_TableIsSmallestEnqueued ==
    []C14_TableBelowQueue /\ [][C14_EnqueueStep]_vars

\* a station sits in a_star's queue twice, the later entry strictly cheaper
\* and equal to the table value
C14_Witness ==
    /\ a_pc = "loop"
    /\ \E j, k \in 1..Len(a_queue) :
           /\ j < k
           /\ a_queue[j].node = a_queue[k].node
           /\ a_queue[k].g < a_queue[j].g
           /\ a_g[a_queue[k].node] = a_queue[k].g

\* --------------------------------------------------------- finalized stations
C15_FinalizedStep ==
    /\ d_count' = d_count + 1 =>
           /\ d_visited \subseteq d_visited'
           /\ Len(d_queue') > Len(d_queue) - 1 =>
                  DNextEntry.node \notin d_visited /\ DNextEntry.node \in d_visited'
           /\ DNextEntry.node \in d_visited =>
                  /\ d_queue' = DRest
                  /\ d_visited' = d_visited
                  /\ d_min' = d_min
    /\ a_count' = a_count + 1 =>
           /\ a_visited \subseteq a_visited'
           /\ Len(a_queue') > Len(a_queue) - 1 =>
                  ANextEntry.node \notin a_visited /\ ANextEntry.node \in a_visited'
           /\ ANextEntry.node \in a_visited =>
                  /\ a_queue' = ARest
                  /\ a_visited' = a_visited
                  /\ a_g' = a_g
    /\ d_queue' # d_queue => d_count' = d_count + 1
    /\ a_queue' # a_queue => a_count' = a_count + 1

\* C15: each station has its outgoing edges relaxed at most once: a step
\* enqueues only when the dequeued station was not in visited, and puts it
\* there; every later dequeue of an entry for a visited station is counted in
\* nodes_visited but enqueues nothing and changes neither visited nor the
\* best-cost table.
C15_RelaxedAtMostOnce == [][C15_FinalizedStep]_vars

\* both searches have dequeued an entry of a station that was finalized
\* before: dijkstra's dequeues, less the returning one, and a_star's so far
\* outnumber the stations finalized
C15_Witness ==
    /\ d_pc = "done" /\ d_ret.cost < Inf
    /\ d_ret.nodes - 1 > Cardinality(d_visited)
    /\ a_pc = "loop"
    /\ a_count > Cardinality(a_visited)

\* ----------------------------------------------------------------- termination
RECURSIVE EdgeCount(_, _)
EdgeCount(g, n) ==
    IF n = 0 THEN 0
    ELSE Len(EdgesOf(g, n)) + EdgeCount(g, n - 1)

NumEdges == EdgeCount(graph, NumStations)

\* the dequeues made and the entries still queued are within 1 + |edges|
C16_DequeuesBounded ==
    /\ d_count + (IF d_pc = "loop" THEN Len(d_queue) ELSE 0) <= 1 + NumEdges
    /\ a_count + (IF a_pc = "loop" THEN Len(a_queue) ELSE 0) <= 1 + NumEdges
    /\ d_pc = "done" => d_ret.nodes <= 1 + NumEdges
    /\ a_pc = "done" => a_ret.nodes <= 1 + NumEdges

\* every step of a loop is a dequeue or the return on the empty queue, and a
\* search that has returned takes no further step
C16_LoopStep ==
    /\ d_vars' # d_vars =>
           /\ d_pc = "loop"
           /\ \/ d_count' = d_count + 1 /\ d_queue # <<>>
              \/ d_pc' = "done" /\ d_queue = <<>> /\ d_ret' = NotFound(d_count)
           /\ (d_pc' = "done" /\ d_queue # <<>>) => DNextEntry.node = end
    /\ a_vars' # a_vars =>
           /\ a_pc = "loop"
           /\ \/ a_count' = a_count + 1 /\ a_queue # <<>>
              \/ a_pc' = "done" /\ a_queue = <<>> /\ a_ret' = NotFound(a_count)
           /\ (a_pc' = "done" /\ a_queue # <<>>) => ANextEntry.node = end

\* C16: on every finite graph with non-negative weights, cycles, zero-weight
\* cycles, self-loops and parallel edges included, both searches terminate,
\* by dequeuing the end station or by emptying the queue, and the number of
\* dequeues is at most 1 + the number of edges: every step of a loop is one
\* more dequeue, and dequeues made plus entries queued never exceed 1 + |E|.
C16_SearchesTerminate ==
    []C16_DequeuesBounded /\ [][C16_LoopStep]_vars

\* both searches returned on a network with a zero-weight self-loop, a
\* zero-weight cycle and two parallel edges, the end station unreachable,
\* after dequeuing the stale entry of the heavier parallel edge too
C16_Witness ==
    /\ d_pc = "done" /\ a_pc = "done"
    /\ \E k \in 1..Len(EdgesOf(graph, 2)) :
           EdgesOf(graph, 2)[k].to = 2 /\ EdgesOf(graph, 2)[k].distance = 0
    /\ \E k \in 1..Len(EdgesOf(graph, 2)) : \E h \in 1..Len(EdgesOf(graph, 3)) :
           /\ EdgesOf(graph, 2)[k].to = 3 /\ EdgesOf(graph, 2)[k].distance = 0
           /\ EdgesOf(graph, 3)[h].to = 2 /\ EdgesOf(graph, 3)[h].distance = 0
    /\ Cardinality({k \in 1..Len(EdgesOf(graph, 1)) : EdgesOf(graph, 1)[k].to = 2}) = 2
    /\ d_ret.cost = Inf /\ a_ret.cost = Inf
    /\ d_ret.nodes >= NumEdges - 1
    /\ a_ret.nodes >= NumEdges - 1

\* ------------------------------------------------------------ no route at all
NoRoute(ret) == ret.cost = Inf /\ ret.path = <<>>

\* C17: whatever the graph, the query and the heuristic, a_star returns
\* (infinity, []) exactly when dijkstra does; so when main sees a finite
\* Dijkstra distance, the A* path it formats is not empty and format_path
\* returns the route / lines record, not the string "No path found.".
C17_AStarFindsWhatDijkstraFinds ==
    /\ (d_pc = "done" /\ a_pc = "done") =>
           /\ NoRoute(a_ret) <=> NoRoute(d_ret)
           /\ a_ret.cost = Inf <=> d_ret.cost = Inf
           /\ a_ret.path = <<>> <=> d_ret.path = <<>>
    /\ report.pc # "TypeError"
    /\ report.pc = "no route" => NoRoute(a_ret)
    /\ report.pc = "printed" =>
           /\ fmt_in = a_ret.path
           /\ fmt_in # <<>>
           /\ fmt_out.kind = "dict"
           /\ fmt_out = FormatPath(a_ret.path)

\* main printed the route of a query on which the heuristic misled a_star
\* (its cost is above dijkstra's) across a station without coordinates
C17_Witness ==
    /\ report.pc = "printed"
    /\ fmt_out.kind = "dict" /\ Len(fmt_out.route) >= 3
    /\ a_ret.cost > d_ret.cost
    /\ \E i \in 1..Len(a_ret.path) : a_ret.path[i][1] \notin DOMAIN stations

\* ------------------------------------------------------------- built networks
\* the edges of the table as <<from, position in edges[from]>>
BuiltEdges == UNION {{<<u, k>> : k \in 1..Len(b_edges[u])} : u \in DOMAIN b_edges}

OnePerTriple ==
    \A x, y \in BuiltEdges :
        (/\ x[1] = y[1]
         /\ b_edges[x[1]][x[2]].to = b_edges[y[1]][y[2]].to
         /\ b_edges[x[1]][x[2]].line = b_edges[y[1]][y[2]].line) => x = y

EveryEdgeHasReverse ==
    \A x \in BuiltEdges :
        LET e == b_edges[x[1]][x[2]]
        IN  \E y \in BuiltEdges :
               /\ y[1] = e.to
               /\ b_edges[y[1]][y[2]].to = x[1]
               /\ b_edges[y[1]][y[2]].line = e.line
               /\ b_edges[y[1]][y[2]].distance = e.distance

\* C18: after any sequence of add_edge calls of the builders with
\* add_reverse_edges enabled, the edge table has at most one edge per (from,
\* to, line) and for every edge u -> v on line L with distance d an edge
\* v -> u on L with the same d, so the validator's bidirectional check logs
\* no missing reverse edge and no distance mismatch.
C18_BuiltNetworkIsBidirectional ==
    b_reverse =>
        /\ OnePerTriple
        /\ EveryEdgeHasReverse
        /\ b_check.pc = "checked" => (b_check.missing = {} /\ b_check.mismatch = {})

\* the validator has checked a table of three edges built by MaxCalls calls,
\* a self-loop among them, so one call repeated a (from, to, line) already built
C18_Witness ==
    /\ b_reverse
    /\ b_check.pc = "checked"
    /\ b_calls = MaxCalls
    /\ Cardinality(BuiltEdges) = 3
    /\ \E x, y \in BuiltEdges :
           /\ b_edges[x[1]][x[2]].to = x[1]
           /\ b_edges[y[1]][y[2]].to # y[1]

====
